---- MODULE Spec2Model ----
(***************************************************************************)
(* Acquisition-function maximizers of smac/optimizer/ei_optimization.py:   *)
(* the tie-breaking sort, LocalSearch, RandomSearch, the interleaved       *)
(* strategy and the ChallengerList iterator.                               *)
(*                                                                         *)
(* A Configuration is a point <<a, b>> of a two-parameter categorical      *)
(* space; a configuration object is a record [cfg, origin].  A scored      *)
(* configuration is a record [score, cfg, origin] (the tuple               *)
(* (acq_value, configuration) of the source).  Random generators are       *)
(* objects of a small heap: a maximizer holds a reference to one.          *)
(***************************************************************************)
EXTENDS Integers, Sequences, FiniteSets, TLC

\* ---------------------------------------------------------------- bounds
MaxPoints == 2       \* num_points is 0..MaxPoints
MaxHist == 2         \* evaluated configurations in a run history
MaxIter == 2         \* max_iterations is None or 0..MaxIter
MaxPlateau == 2      \* n_steps_plateau_walk is 0..MaxPlateau
MaxList == 2         \* length of a list handed to a ChallengerList directly

\* ------------------------------------------------------ program constants
DefaultSeed == 1             \* np.random.RandomState(seed=1)
LocalSearchPoints == 10      \* self.local_search._maximize(runhistory, stats, 10)
DefaultPlateauWalk == 10     \* n_steps_plateau_walk: int=10

None == <<>>                 \* Python's None, for an Optional[int] held as <<k>>

\* ------------------------------------------------------------ value domains
Scores == 0 .. 1             \* acquisition values under Spec
ClimbScores == 0 .. 2        \* acquisition values under SpecSort and SpecClimb
Seeds == {2, 5}              \* states of a generator the caller hands over
SpaceSeeds == {1, 3}         \* states of the configuration space's generator

\* ---------------------------------------------------- configuration space
Domain == 0 .. 1
Configs == Domain \X Domain

Conf(c, o) == [cfg |-> c, origin |-> o]
Scored(v, c, o) == [score |-> v, cfg |-> c, origin |-> o]

Range(s) == {s[i] : i \in DOMAIN s}

\* F applied to the value of v, v being evaluated once.
With(v, F(_)) == CHOOSE r \in {F(x) : x \in {v}} : TRUE

\* Sequences over S of length at most n.
SeqUpTo(S, n) == UNION {[1 .. k -> S] : k \in 0 .. n}

\* ------------------------------------------------------ random generators
\* A RandomState is its state, a number of 1..16; one draw moves it on and
\* returns the new state (a full-period multiplicative generator).
RngNext(s) == (3 * s) % 17

RECURSIVE RngAdvance(_, _)
RngAdvance(s, n) == IF n <= 0 THEN s ELSE RngAdvance(RngNext(s), n - 1)

\* rng.rand(n): n reals, the generator moved on n times.
Rand(s, n) == [vals |-> [i \in 1 .. n |-> RngAdvance(s, i)], rng |-> RngAdvance(s, n)]

\* rng.randint(MAXINT): one integer.
RandInt(s) == [val |-> RngNext(s), rng |-> RngNext(s)]

Swap(seq, i, j) == [seq EXCEPT ![i] = seq[j], ![j] = seq[i]]

\* rng.shuffle(list): Fisher-Yates from the last position down, one draw each.
RECURSIVE ShuffleFrom(_, _, _)
ShuffleFrom(seq, i, s) ==
    IF i <= 1 THEN [list |-> seq, rng |-> s]
    ELSE LET s2 == RngNext(s)
             j == (s2 % i) + 1
         IN ShuffleFrom(Swap(seq, i, j), i - 1, s2)

Shuffle(seq, s) == ShuffleFrom(seq, Len(seq), s)

\* ConfigurationSpace.sample_configuration(size): the space has a generator
\* of its own; size < 1 gives the empty list.
SampleOne(s) == <<(RngNext(s) \div 2) % 2, RngNext(s) % 2>>

\* A call of sample_configuration, as the log `samples` records it.
Drawn(size, d) == [size |-> size, configs |-> d.configs]

SampleConfiguration(s, size) ==
    [configs |-> [i \in 1 .. (IF size < 1 THEN 0 ELSE size) |->
                     Conf(SampleOne(RngAdvance(s, i - 1)), "None")],
     cs |-> RngAdvance(s, IF size < 1 THEN 0 ELSE size)]

\* ------------------------------------------------------------ the history
\* A RunHistory: its evaluated configurations (get_all_configs()) and the
\* number of runs it holds (len(data)); empty() is "no runs".
HistoryEmpty(h) == h.runs = 0

\* ---------------------------------------------------------------- sorting
\* LexBefore, with the random column as the primary key.
LexBeforeRandomFirst(secondary, primary, i, j) ==
    \/ secondary[i] < secondary[j]
    \/ secondary[i] = secondary[j] /\ primary[i] < primary[j]
    \/ primary[i] = primary[j] /\ secondary[i] = secondary[j] /\ i < j

\* np.lexsort((secondary, primary)): whether index i sorts before index j
\* (ascending by the primary key, then by the secondary; stable).
LexBefore(secondary, primary, i, j) ==
    \/ primary[i] < primary[j]
    \/ primary[i] = primary[j] /\ secondary[i] < secondary[j]
    \/ primary[i] = primary[j] /\ secondary[i] = secondary[j] /\ i < j

\* np.lexsort((secondary, primary)): the indices in sorted order.
LexSort(secondary, primary) ==
    LET n == Len(primary)
        Pos(i) == 1 + Cardinality({j \in 1 .. n : LexBefore(secondary, primary, j, i)})
    IN [p \in 1 .. n |-> CHOOSE i \in 1 .. n : Pos(i) = p]

\* Reversed, with the indices left in lexsort's ascending order.
NotReversed(indices, k) == indices[k]

\* indices[::-1]: the k-th index from the end.
Reversed(indices, k) == indices[Len(indices) + 1 - k]

\* AcquisitionFunctionMaximizer._sort_configs_by_acq_value, on generator state s.
SortConfigsByAcqValue(acq, configs, s) ==
    LET n == Len(configs)
        acq_values == [i \in 1 .. n |-> acq[configs[i].cfg]]
        random == Rand(s, n)
    IN With(LexSort(random.vals, acq_values), LAMBDA indices :
          [list |-> [k \in 1 .. n |->
                       LET ind == Reversed(indices, k)
                       IN Scored(acq_values[ind], configs[ind].cfg, configs[ind].origin)],
           rng |-> random.rng])

\* SortBefore, without reverse=True.
SortBeforeAscending(list, i, j) ==
    \/ list[i].score < list[j].score
    \/ list[i].score = list[j].score /\ i < j

\* SortBefore, with reverse=True also reversing the order of equal scores.
SortBeforeTiesReversed(list, i, j) ==
    \/ list[i].score > list[j].score
    \/ list[i].score = list[j].score /\ i > j

\* list.sort(reverse=True, key=lambda x: x[0]): whether element i ends up
\* before element j (descending by score; equal scores keep their order).
SortBefore(list, i, j) ==
    \/ list[i].score > list[j].score
    \/ list[i].score = list[j].score /\ i < j

\* SortByScore, leaving the list as it is.
SortByScoreSkipped(list) == list

\* list.sort(reverse=True, key=lambda x: x[0])
SortByScore(list) ==
    LET n == Len(list)
        Pos(i) == 1 + Cardinality({j \in 1 .. n : SortBefore(list, j, i)})
    IN [p \in 1 .. n |-> list[CHOOSE i \in 1 .. n : Pos(i) = p]]

\* ---------------------------------------------------------- neighbourhood
\* The configurations one exchange away from c, in the generator's own order.
OneExchange(c) ==
    LET S == {d \in Configs : (d[1] # c[1]) # (d[2] # c[2])}
        Pos(d) == 1 + Cardinality({e \in S : e[1] < d[1] \/ (e[1] = d[1] /\ e[2] < d[2])})
    IN [p \in 1 .. Cardinality(S) |-> CHOOSE d \in S : Pos(d) = p]

\* seq without its i-th element.
Without(seq, i) == SubSeq(seq, 1, i - 1) \o SubSeq(seq, i + 1, Len(seq))

\* The permutation of seq that the number k selects.
RECURSIVE Permuted(_, _)
Permuted(seq, k) ==
    IF seq = <<>> THEN <<>>
    ELSE LET i == (k % Len(seq)) + 1
         IN <<seq[i]>> \o Permuted(Without(seq, i), k \div Len(seq))

\* get_one_exchange_neighbourhood(incumbent, seed)
OneExchangeNeighbourhood(incumbent, seed) == Permuted(OneExchange(incumbent), seed)

\* ------------------------------------------------------------ LocalSearch
MinOf(S) == CHOOSE x \in S : \A y \in S : x <= y
Min2(a, b) == IF a <= b THEN a ELSE b

\* _one_iter up to its loop: the locals, on generator state s.
ClimbInit(acq, start_point, s) ==
    [start_point |-> start_point,
     incumbent |-> start_point,
     acq_val_incumbent |-> acq[start_point],
     local_search_steps |-> 0,
     neighbors_looked_at |-> 0,
     n_no_improvements |-> 0,
     changed_inc |-> FALSE,
     all_neighbors |-> <<>>,
     scanned |-> 0,
     neighbors |-> <<>>,
     plateau_move |-> FALSE,
     rng |-> s,
     done |-> FALSE]

\* FirstImproving, taking the best of the neighbours that score higher.
BestImproving(acq, all_neighbors, acq_val_incumbent) ==
    LET better == {i \in 1 .. Len(all_neighbors) :
                      acq[all_neighbors[i]] > acq_val_incumbent}
    IN IF better = {} THEN 0
       ELSE MinOf({i \in better :
                     \A j \in better : acq[all_neighbors[j]] <= acq[all_neighbors[i]]})

\* The scan of a neighbourhood stops at the first neighbour scoring strictly
\* higher than the incumbent: its position, 0 when there is none.
FirstImproving(acq, all_neighbors, acq_val_incumbent) ==
    LET better == {i \in 1 .. Len(all_neighbors) :
                      acq[all_neighbors[i]] > acq_val_incumbent}
    IN IF better = {} THEN 0 ELSE MinOf(better)

\* PlateauAllowed, with no plateau budget.
PlateauAllowedUnbounded(changed_inc, n_no_improvements, plateau_walk, neighbors) ==
    /\ ~changed_inc
    /\ Len(neighbors) > 0

\* PlateauAllowed, with the plateau budget off by one.
PlateauAllowedOnceMore(changed_inc, n_no_improvements, plateau_walk, neighbors) ==
    /\ ~changed_inc
    /\ n_no_improvements <= plateau_walk
    /\ Len(neighbors) > 0

\* The guard of the plateau move.
PlateauAllowed(changed_inc, n_no_improvements, plateau_walk, neighbors) ==
    /\ ~changed_inc
    /\ n_no_improvements < plateau_walk
    /\ Len(neighbors) > 0

\* ClimbBreak, leaving the loop when the incumbent changed.
ClimbBreakOnChange(changed_inc, max_iter, local_search_steps) ==
    \/ changed_inc
    \/ max_iter # None /\ local_search_steps = max_iter[1]

\* The guard of the loop's break.
ClimbBreak(changed_inc, max_iter, local_search_steps) ==
    \/ ~changed_inc
    \/ max_iter # None /\ local_search_steps = max_iter[1]

\* Scan, recording as plateau candidates the neighbours that score no higher.
ScanRecordingLower(acq, all_neighbors, acq_val_incumbent) ==
    With(FirstImproving(acq, all_neighbors, acq_val_incumbent), LAMBDA first :
       LET scanned == IF first = 0 THEN Len(all_neighbors) ELSE first
           IsNoHigher(x) == acq[x] <= acq_val_incumbent
       IN [first |-> first,
           scanned |-> scanned,
           neighbors |-> SelectSeq(SubSeq(all_neighbors, 1, scanned), IsNoHigher)])

\* The scan of the neighbourhood in one pass of the loop of _one_iter:
\* [first: the position of the improving neighbour that ends it or 0,
\*  scanned: the neighbours evaluated, neighbors: those scoring the same].
Scan(acq, all_neighbors, acq_val_incumbent) ==
    With(FirstImproving(acq, all_neighbors, acq_val_incumbent), LAMBDA first :
       LET scanned == IF first = 0 THEN Len(all_neighbors) ELSE first
           IsEqual(x) == acq[x] = acq_val_incumbent
       IN [first |-> first,
           scanned |-> scanned,
           neighbors |-> SelectSeq(SubSeq(all_neighbors, 1, scanned), IsEqual)])

\* One pass of the while loop of _one_iter.
ClimbStepFn(acq, max_iter, plateau_walk, c) ==
    LET local_search_steps == c.local_search_steps + 1
        seed == RandInt(c.rng)
    IN With(OneExchangeNeighbourhood(c.incumbent, seed.val), LAMBDA all_neighbors :
       With(Scan(acq, all_neighbors, c.acq_val_incumbent), LAMBDA scan :
          LET improved == scan.first # 0
              plateau == PlateauAllowed(improved, c.n_no_improvements, plateau_walk,
                                        scan.neighbors)
              changed_inc == improved \/ plateau
          IN [start_point |-> c.start_point,
              incumbent |-> IF improved THEN all_neighbors[scan.first]
                            ELSE IF plateau THEN scan.neighbors[1] ELSE c.incumbent,
              acq_val_incumbent |-> IF improved THEN acq[all_neighbors[scan.first]]
                                    ELSE c.acq_val_incumbent,
              local_search_steps |-> local_search_steps,
              neighbors_looked_at |-> c.neighbors_looked_at + scan.scanned,
              n_no_improvements |-> c.n_no_improvements + (IF plateau THEN 1 ELSE 0),
              changed_inc |-> changed_inc,
              all_neighbors |-> all_neighbors,
              scanned |-> scan.scanned,
              neighbors |-> scan.neighbors,
              plateau_move |-> plateau,
              rng |-> seed.rng,
              done |-> ClimbBreak(changed_inc, max_iter, local_search_steps)]))

\* The while loop of _one_iter, run to its break.
RECURSIVE ClimbRun(_, _, _, _)
ClimbRun(acq, max_iter, plateau_walk, c) ==
    IF c.done THEN c
    ELSE With(ClimbStepFn(acq, max_iter, plateau_walk, c), LAMBDA next :
            ClimbRun(acq, max_iter, plateau_walk, next))

\* LocalSearch._one_iter
OneIter(acq, max_iter, plateau_walk, start_point, s) ==
    With(ClimbInit(acq, start_point, s), LAMBDA c :
       ClimbRun(acq, max_iter, plateau_walk, c))

\* NumConfigurationsByLocalSearch, not capped by the history.
NumConfigurationsAsAsked(h, n) == n

\* The number of seeds _maximize asks _get_initial_points for.
NumConfigurationsByLocalSearch(h, n) == Min2(h.runs, n)

\* LocalSearch._get_initial_points, on generator state s and space state c.
GetInitialPoints(acq, h, n, s, c) ==
    IF HistoryEmpty(h)
    THEN With(SampleConfiguration(c, n), LAMBDA d :
            [init_points |-> d.configs, rng |-> s, cs |-> d.cs,
             samples |-> <<Drawn(n, d)>>])
    ELSE With(SortConfigsByAcqValue(acq, h.configs, s), LAMBDA sorted :
            LET k == Min2(Len(sorted.list), n)
            IN [init_points |-> [i \in 1 .. k |->
                                   Conf(sorted.list[i].cfg, sorted.list[i].origin)],
                rng |-> sorted.rng, cs |-> c, samples |-> <<>>])

\* The for loop of LocalSearch._maximize: one climb per start point.
RECURSIVE ClimbAll(_, _, _, _, _, _, _)
ClimbAll(acq, max_iter, plateau_walk, points, i, s, configs_acq) ==
    IF i > Len(points) THEN [configs_acq |-> configs_acq, rng |-> s, climbs |-> i - 1]
    ELSE With(OneIter(acq, max_iter, plateau_walk, points[i].cfg, s), LAMBDA r :
         With(Append(configs_acq,
                     Scored(r.acq_val_incumbent, r.incumbent, "Local Search")),
              LAMBDA appended :
                 ClimbAll(acq, max_iter, plateau_walk, points, i + 1, r.rng, appended)))

\* LocalSearch._maximize
LocalSearchRank(acq, max_iter, plateau_walk, h, n, s, c) ==
    With(GetInitialPoints(acq, h, NumConfigurationsByLocalSearch(h, n), s, c), LAMBDA ip :
    With(ClimbAll(acq, max_iter, plateau_walk, ip.init_points, 1, ip.rng, <<>>),
         LAMBDA loop :
    With(Shuffle(loop.configs_acq, loop.rng), LAMBDA shuffled :
       [list |-> SortByScore(shuffled.list),
        rng |-> shuffled.rng,
        cs |-> ip.cs,
        samples |-> ip.samples,
        init_points |-> ip.init_points,
        climbs |-> loop.climbs])))

\* ----------------------------------------------------------- RandomSearch
\* RandomSearchSize, drawing num_points whatever it is.
RandomSearchSizeAsAsked(n) == n

\* The size of the draw RandomSearch._maximize makes.
RandomSearchSize(n) == IF n > 1 THEN n ELSE 1

\* Labelled, with the origin left as it was.
Unlabelled(configs, o) == configs

\* for i in range(len(rand_configs)): rand_configs[i].origin = o
Labelled(configs, o) == [i \in 1 .. Len(configs) |-> Conf(configs[i].cfg, o)]

\* RandomSearch._maximize
RandomSearchRank(acq, n, sorted, s, c) ==
    With(SampleConfiguration(c, RandomSearchSize(n)), LAMBDA d :
       LET rand_configs == d.configs
       IN IF sorted
          THEN With(SortConfigsByAcqValue(acq,
                        Labelled(rand_configs, "Random Search (sorted)"), s),
                    LAMBDA r :
                       [list |-> r.list, rng |-> r.rng, cs |-> d.cs,
                        samples |-> <<Drawn(RandomSearchSize(n), d)>>])
          ELSE [list |-> [i \in 1 .. Len(rand_configs) |->
                             Scored(0, rand_configs[i].cfg, "Random Search")],
                rng |-> s, cs |-> d.cs, samples |-> <<Drawn(RandomSearchSize(n), d)>>])

\* ------------------------------------------------------------ construction
\* AcquisitionFunctionMaximizer.__init__ of maximizer m with argument rng
\* (None, or <<o>> for generator object o): st is [rngs, rng].
MaximizerInit(st, m, arg) ==
    IF arg = None
    THEN [rngs |-> Append(st.rngs, DefaultSeed),
          rng |-> [x \in DOMAIN st.rng \cup {m} |->
                      IF x = m THEN Len(st.rngs) + 1 ELSE st.rng[x]]]
    ELSE [rngs |-> st.rngs,
          rng |-> [x \in DOMAIN st.rng \cup {m} |->
                      IF x = m THEN arg[1] ELSE st.rng[x]]]

\* The rng argument InterleavedLocalAndRandomSearch.__init__ hands on.
SubStrategyRng(arg, st) == arg

\* InterleavedLocalAndRandomSearch.__init__
InterleavedInit(heap, arg) ==
    LET st0 == [rngs |-> heap, rng |-> <<>>]
        st1 == MaximizerInit(st0, "interleaved", arg)
        st2 == MaximizerInit(st1, "random_search", SubStrategyRng(arg, st1))
    IN MaximizerInit(st2, "local_search", SubStrategyRng(arg, st2))

\* ------------------------------------------------------------- variables
VARIABLES
    acquisition_function,   \* [Configs -> score]
    rngs,                   \* the RandomState objects: [object id -> state]
    rng,                    \* each maximizer's self.rng: [maximizer -> object id]
    cs,                     \* state of the configuration space's generator
    max_iterations,         \* LocalSearch.max_iterations: None or <<k>>
    n_steps_plateau_walk,   \* LocalSearch.n_steps_plateau_walk
    pc,                     \* where the caller is
    strategy,               \* the maximizer the caller invoked
    num_points,             \* the num_points it passed
    runhistory,             \* [configs: the evaluated configurations, runs: len(data)]
    configs,                \* the argument of _sort_configs_by_acq_value
    requests,               \* the _maximize calls made: <<strategy, num_points, sorted>>
    samples,                \* the sample_configuration calls made: [size, configs]
    init_points,            \* LocalSearch._maximize: the seeds
    n_climbs,               \* number of _one_iter calls made
    climb,                  \* the locals of the _one_iter call in progress
    by_local_search,        \* next_configs_by_local_search
    by_random_search,       \* next_configs_by_random_search_sorted
    result,                 \* what the call returned
    challengers,            \* ChallengerList.challengers
    _index,                 \* ChallengerList._index
    _next_is_random,        \* ChallengerList._next_is_random
    yielded,                \* what the consumer has pulled so far
    stopped                 \* the last pull raised StopIteration

maxVars == <<acquisition_function, max_iterations, n_steps_plateau_walk>>
rngVars == <<rngs, rng>>
callVars == <<strategy, num_points, runhistory, configs, requests, init_points, n_climbs,
              by_local_search, by_random_search, result>>
listVars == <<challengers, _index, _next_is_random, yielded, stopped>>
vars == <<maxVars, rngVars, cs, pc, callVars, samples, climb, listVars>>

Maximizers == {"interleaved", "random_search", "local_search"}

\* ----------------------------------------------------------- ChallengerList
\* ChallengerList.__init__
ChallengerListInit(list) ==
    /\ challengers = list
    /\ _index = 0
    /\ _next_is_random = FALSE
    /\ yielded = <<>>
    /\ stopped = FALSE

\* Exhausted, forgetting the random draw owed after the last challenger.
ExhaustedAtListEnd == _index = Len(challengers)

\* The StopIteration test of __next__.
Exhausted == _index = Len(challengers) /\ ~_next_is_random

\* ChallengerNext, taking each challenger off the front of the list.
ChallengerNextConsuming ==
    /\ pc = "iterating"
    /\ IF challengers = <<>> /\ ~_next_is_random
       THEN /\ stopped' = TRUE
            /\ UNCHANGED <<challengers, _index, _next_is_random, yielded, cs, samples>>
       ELSE IF _next_is_random
       THEN LET d == SampleConfiguration(cs, 1)
            IN /\ _next_is_random' = FALSE
               /\ cs' = d.cs
               /\ samples' = Append(samples, Drawn(1, d))
               /\ yielded' = Append(yielded, Conf(d.configs[1].cfg, "Random Search"))
               /\ UNCHANGED <<challengers, _index, stopped>>
       ELSE /\ _next_is_random' = TRUE
            /\ yielded' = Append(yielded, Head(challengers))
            /\ challengers' = Tail(challengers)
            /\ UNCHANGED <<_index, stopped, cs, samples>>
    /\ UNCHANGED <<maxVars, rngVars, pc, callVars, climb>>

\* ChallengerList.__next__
ChallengerNext ==
    /\ pc = "iterating"
    /\ IF Exhausted
       THEN /\ stopped' = TRUE
            /\ UNCHANGED <<challengers, _index, _next_is_random, yielded, cs, samples>>
       ELSE IF _next_is_random
       THEN LET d == SampleConfiguration(cs, 1)
            IN /\ _next_is_random' = FALSE
               /\ cs' = d.cs
               /\ samples' = Append(samples, Drawn(1, d))
               /\ yielded' = Append(yielded, Conf(d.configs[1].cfg, "Random Search"))
               /\ UNCHANGED <<challengers, _index, stopped>>
       ELSE /\ _next_is_random' = TRUE
            /\ yielded' = Append(yielded, challengers[_index + 1])
            /\ _index' = _index + 1
            /\ UNCHANGED <<challengers, stopped, cs, samples>>
    /\ UNCHANGED <<maxVars, rngVars, pc, callVars, climb>>

\* State of the variables a specification does not use.
NoClimb == [done |-> TRUE]
NoHistory == [configs |-> <<>>, runs |-> 0]

IdleCall ==
    /\ strategy = "none"
    /\ num_points = 0
    /\ runhistory = NoHistory
    /\ configs = <<>>
    /\ requests = <<>>
    /\ init_points = <<>>
    /\ n_climbs = 0
    /\ by_local_search = <<>>
    /\ by_random_search = <<>>
    /\ result = <<>>
    /\ samples = <<>>
    /\ climb = NoClimb

\* A ChallengerList built on any list of labelled configurations.
InitChallenger ==
    /\ acquisition_function = [c \in Configs |-> 0]
    /\ rngs = [o \in {1} |-> DefaultSeed]
    /\ rng = [m \in Maximizers |-> 1]
    /\ cs \in SpaceSeeds
    /\ max_iterations = None
    /\ n_steps_plateau_walk = DefaultPlateauWalk
    /\ pc = "iterating"
    /\ IdleCall
    /\ \E list \in SeqUpTo({Conf(c, o) : c \in Configs,
                                          o \in {"Local Search", "Random Search (sorted)"}},
                           MaxList) :
          ChallengerListInit(list)

NextChallenger == ChallengerNext

SpecChallenger == InitChallenger /\ [][NextChallenger]_vars

\* ------------------------------------------------- _sort_configs_by_acq_value
\* The generator state of maximizer m.
RngOf(m) == rngs[rng[m]]

\* The heap after maximizer m's generator moved to state s.
RngSet(heap, m, s) == [heap EXCEPT ![rng[m]] = s]

\* The argument rng of a constructor: None, or a generator the caller built.
Constructed(st) ==
    /\ rngs = st.rngs
    /\ rng = st.rng

\* A maximizer, given a non-empty list of configurations to sort.
InitSort ==
    /\ acquisition_function \in [Configs -> ClimbScores]
    /\ \E seed \in Seeds : Constructed(InterleavedInit(<<seed>>, <<1>>))
    /\ cs = DefaultSeed
    /\ max_iterations = None
    /\ n_steps_plateau_walk = DefaultPlateauWalk
    /\ pc = "sorting"
    /\ strategy = "none"
    /\ num_points = 0
    /\ runhistory = NoHistory
    /\ configs \in {Labelled(l, "None") :
                      l \in SeqUpTo([cfg : Configs], MaxHist + 1) \ {<<>>}}
    /\ requests = <<>>
    /\ init_points = <<>>
    /\ n_climbs = 0
    /\ by_local_search = <<>>
    /\ by_random_search = <<>>
    /\ result = <<>>
    /\ samples = <<>>
    /\ climb = NoClimb
    /\ ChallengerListInit(<<>>)

\* A call of _sort_configs_by_acq_value(configs).
SortCall ==
    /\ pc = "sorting"
    /\ \E r \in {SortConfigsByAcqValue(acquisition_function, configs,
                                       RngOf("local_search"))} :
          /\ result' = r.list
          /\ rngs' = RngSet(rngs, "local_search", r.rng)
    /\ pc' = "returned"
    /\ UNCHANGED <<maxVars, rng, cs, strategy, num_points, runhistory, configs, requests,
                   init_points, n_climbs, by_local_search, by_random_search, samples,
                   climb, listVars>>

NextSort == SortCall

SpecSort == InitSort /\ [][NextSort]_vars

\* --------------------------------------------------------------- _one_iter
\* A LocalSearch with any step cap and plateau budget, about to climb from
\* any start point.
InitClimb ==
    /\ acquisition_function \in [Configs -> ClimbScores]
    /\ \E seed \in Seeds : Constructed(InterleavedInit(<<seed>>, <<1>>))
    /\ cs = DefaultSeed
    /\ max_iterations \in {None} \cup {<<k>> : k \in 0 .. MaxIter}
    /\ n_steps_plateau_walk \in 0 .. MaxPlateau
    /\ pc = "climbing"
    /\ strategy = "none"
    /\ num_points = 0
    /\ runhistory = NoHistory
    /\ configs = <<>>
    /\ requests = <<>>
    /\ init_points = <<>>
    /\ n_climbs = 1
    /\ by_local_search = <<>>
    /\ by_random_search = <<>>
    /\ result = <<>>
    /\ samples = <<>>
    /\ \E start_point \in Configs :
          climb = ClimbInit(acquisition_function, start_point, RngOf("local_search"))
    /\ ChallengerListInit(<<>>)

\* One pass of the while loop of _one_iter.
ClimbStep ==
    /\ pc = "climbing"
    /\ ~climb.done
    /\ climb' = ClimbStepFn(acquisition_function, max_iterations, n_steps_plateau_walk, climb)
    /\ rngs' = RngSet(rngs, "local_search", climb'.rng)
    /\ UNCHANGED <<maxVars, rng, cs, pc, callVars, samples, listVars>>

\* return acq_val_incumbent, incumbent
ClimbReturn ==
    /\ pc = "climbing"
    /\ climb.done
    /\ result' = <<Scored(climb.acq_val_incumbent, climb.incumbent, "None")>>
    /\ pc' = "returned"
    /\ UNCHANGED <<maxVars, rngVars, cs, strategy, num_points, runhistory, configs,
                   requests, init_points, n_climbs, by_local_search, by_random_search,
                   samples, climb, listVars>>

NextClimb == ClimbStep \/ ClimbReturn

SpecClimb == InitClimb /\ [][NextClimb]_vars

\* _one_iter runs on its caller's thread: a pass of the loop that can be made
\* is made, and so is the return.
SpecClimbFair == SpecClimb /\ WF_vars(ClimbStep) /\ WF_vars(ClimbReturn)

\* ---------------------------------------------------------------- maximize
\* The run histories: distinct evaluated configurations, each run at least once.
Histories ==
    {[configs |-> Labelled(l, "None"), runs |-> r] :
        <<l, r>> \in {<<l, r>> \in SeqUpTo([cfg : Configs], MaxHist) \X (0 .. MaxHist + 1) :
                        /\ \A i, j \in DOMAIN l : i # j => l[i] # l[j]
                        /\ r \in {Len(l), Len(l) + 1}
                        /\ (r = 0) = (l = <<>>)}}

\* The n_steps_plateau_walk of the LocalSearch: the default, which is what
\* InterleavedLocalAndRandomSearch.__init__ builds its LocalSearch with, or
\* none, for a LocalSearch the caller constructed.
PlateauWalks == {0, DefaultPlateauWalk}

\* An InterleavedLocalAndRandomSearch just constructed, with or without a
\* generator of the caller's; its random_search and local_search are the
\* RandomSearch and the LocalSearch a caller may also invoke directly.
Init ==
    /\ acquisition_function \in [Configs -> Scores]
    /\ \/ Constructed(InterleavedInit(<<>>, None))
       \/ \E seed \in Seeds : Constructed(InterleavedInit(<<seed>>, <<1>>))
    /\ cs \in SpaceSeeds
    /\ max_iterations = None
    /\ n_steps_plateau_walk \in PlateauWalks
    /\ pc = "idle"
    /\ IdleCall
    /\ ChallengerListInit(<<>>)

\* AcquisitionFunctionMaximizer.maximize: the configurations of the ranking.
Configurations(list) == [i \in 1 .. Len(list) |-> Conf(list[i].cfg, list[i].origin)]

\* RandomSearch._maximize(runhistory, stats, n, _sorted); maximize is the
\* call without the flag.
RandomSearchMaximize ==
    /\ pc = "idle"
    /\ \E n \in 0 .. MaxPoints, sorted \in BOOLEAN :
       \E r \in {RandomSearchRank(acquisition_function, n, sorted,
                                    RngOf("random_search"), cs)} :
             /\ strategy' = "random_search"
             /\ num_points' = n
             /\ requests' = <<[strategy |-> "random_search", num_points |-> n,
                               sorted |-> sorted]>>
             /\ result' = r.list
             /\ rngs' = RngSet(rngs, "random_search", r.rng)
             /\ cs' = r.cs
             /\ samples' = r.samples
    /\ pc' = "returned"
    /\ UNCHANGED <<maxVars, rng, runhistory, configs, init_points, n_climbs,
                   by_local_search, by_random_search, climb, listVars>>

\* LocalSearch._maximize(runhistory, stats, n), as maximize calls it.
LocalSearchMaximize ==
    /\ pc = "idle"
    /\ \E h \in Histories, n \in 0 .. MaxPoints :
       \E r \in {LocalSearchRank(acquisition_function, max_iterations,
                                   n_steps_plateau_walk, h, n, RngOf("local_search"), cs)} :
             /\ strategy' = "local_search"
             /\ num_points' = n
             /\ runhistory' = h
             /\ requests' = <<[strategy |-> "local_search", num_points |-> n,
                               sorted |-> FALSE]>>
             /\ init_points' = r.init_points
             /\ n_climbs' = r.climbs
             /\ result' = r.list
             /\ rngs' = RngSet(rngs, "local_search", r.rng)
             /\ cs' = r.cs
             /\ samples' = r.samples
    /\ pc' = "returned"
    /\ UNCHANGED <<maxVars, rng, configs, by_local_search, by_random_search, climb,
                   listVars>>

\* The num_points InterleavedLocalAndRandomSearch.maximize asks of random search.
RandomSearchShare(n, next_configs_by_local_search) == n - Len(next_configs_by_local_search)

\* next_configs_by_acq_value, before it is sorted.
Concatenated(next_configs_by_random_search_sorted, next_configs_by_local_search) ==
    next_configs_by_random_search_sorted \o next_configs_by_local_search

\* The body of InterleavedLocalAndRandomSearch.maximize up to the construction
\* of the ChallengerList, on heap `heap` and space state c.
InterleavedRank(acq, max_iter, plateau_walk, h, n, heap, c) ==
    With(LocalSearchRank(acq, max_iter, plateau_walk, h, LocalSearchPoints,
                         heap[rng["local_search"]], c), LAMBDA ls :
       LET heap1 == RngSet(heap, "local_search", ls.rng)
           share == RandomSearchShare(n, ls.list)
       IN With(RandomSearchRank(acq, share, TRUE, heap1[rng["random_search"]], ls.cs),
               LAMBDA rs :
                  [local |-> ls,
                   random |-> rs,
                   share |-> share,
                   next_configs_by_acq_value |->
                       SortByScore(Concatenated(rs.list, ls.list)),
                   rngs |-> RngSet(heap1, "random_search", rs.rng)]))

\* InterleavedLocalAndRandomSearch.maximize(runhistory, stats, n)
InterleavedMaximize ==
    /\ pc = "idle"
    /\ n_steps_plateau_walk = DefaultPlateauWalk
    /\ \E h \in Histories, n \in 0 .. MaxPoints :
       \E r \in {InterleavedRank(acquisition_function, max_iterations,
                                 n_steps_plateau_walk, h, n, rngs, cs)} :
             /\ strategy' = "interleaved"
             /\ num_points' = n
             /\ runhistory' = h
             /\ requests' = <<[strategy |-> "local_search", num_points |-> LocalSearchPoints,
                               sorted |-> FALSE],
                              [strategy |-> "random_search", num_points |-> r.share,
                               sorted |-> TRUE]>>
             /\ init_points' = r.local.init_points
             /\ n_climbs' = r.local.climbs
             /\ by_local_search' = r.local.list
             /\ by_random_search' = r.random.list
             /\ result' = r.next_configs_by_acq_value
             /\ rngs' = r.rngs
             /\ cs' = r.random.cs
             /\ samples' = r.local.samples \o r.random.samples
             /\ challengers' = Configurations(r.next_configs_by_acq_value)
             /\ _index' = 0
             /\ _next_is_random' = FALSE
    /\ pc' = "iterating"
    /\ UNCHANGED <<maxVars, rng, configs, climb, yielded, stopped>>

\* The maximizers whose _maximize has no implementation.
Unimplemented == {"InterleavedLocalAndRandomSearch._maximize",
                  "AcquisitionFunctionMaximizer._maximize"}

\* UnimplementedMaximize, handing the request on to random search.
UnimplementedMaximizeDelegating ==
    /\ pc = "idle"
    /\ \E m \in Unimplemented, h \in Histories, n \in 0 .. MaxPoints :
       \E r \in {RandomSearchRank(acquisition_function, n, TRUE,
                                    RngOf("random_search"), cs)} :
             /\ strategy' = m
             /\ num_points' = n
             /\ runhistory' = h
             /\ result' = r.list
             /\ rngs' = RngSet(rngs, "random_search", r.rng)
             /\ cs' = r.cs
             /\ samples' = r.samples
    /\ pc' = "returned"
    /\ UNCHANGED <<maxVars, rng, configs, requests, init_points, n_climbs,
                   by_local_search, by_random_search, climb, listVars>>

\* InterleavedLocalAndRandomSearch._maximize(runhistory, stats, n) and the
\* abstract AcquisitionFunctionMaximizer._maximize: raise NotImplementedError()
UnimplementedMaximize ==
    /\ pc = "idle"
    /\ \E m \in Unimplemented, h \in Histories, n \in 0 .. MaxPoints :
          /\ strategy' = m
          /\ num_points' = n
          /\ runhistory' = h
    /\ pc' = "NotImplementedError"
    /\ UNCHANGED <<maxVars, rngVars, cs, configs, requests, init_points, n_climbs,
                   by_local_search, by_random_search, result, samples, climb, listVars>>

Next ==
    \/ RandomSearchMaximize
    \/ LocalSearchMaximize
    \/ InterleavedMaximize
    \/ UnimplementedMaximize
    \/ ChallengerNext

Spec == Init /\ [][Next]_vars

\* ================================================================== claims
Max2(a, b) == IF a >= b THEN a ELSE b

NonIncreasing(list) ==
    \A i \in 1 .. Len(list) - 1 : list[i].score >= list[i + 1].score

Occurrences(seq, x) == Cardinality({i \in DOMAIN seq : seq[i] = x})

IsPermutation(a, b) ==
    /\ Len(a) = Len(b)
    /\ \A x \in Range(a) \cup Range(b) : Occurrences(a, x) = Occurrences(b, x)

CfgsOf(list) == [i \in 1 .. Len(list) |-> list[i].cfg]

\* The num_points the LocalSearch of the call in progress was asked for.
AskedOfLocalSearch == requests[1].num_points

LocalSearchRan == pc # "idle" /\ strategy \in {"local_search", "interleaved"}

\* C1: pulling a ChallengerList built on a list of N >= 0 configurations
\* yields, up to exhaustion, exactly 2N elements: the element at each even
\* position 2i (from 0) is list element i, the element at each odd position
\* is a fresh draw with origin "Random Search", and exhaustion is signalled
\* exactly when 2N elements were pulled (at the first pull when N = 0).
C1_ChallengerPattern ==
    /\ Len(yielded) <= 2 * Len(challengers)
    /\ \A k \in 1 .. Len(yielded) :
          IF k % 2 = 1
          THEN yielded[k] = challengers[(k + 1) \div 2]
          ELSE /\ yielded[k].origin = "Random Search"
               /\ yielded[k].cfg = samples[k \div 2].configs[1].cfg
    /\ Len(samples) = Len(yielded) \div 2
    /\ Exhausted <=> Len(yielded) = 2 * Len(challengers)
    /\ stopped => Len(yielded) = 2 * Len(challengers)

C1_Witness ==
    /\ stopped
    /\ Len(challengers) = 2
    /\ Len(yielded) = 4

\* C2: with max_iterations = K, a climb never makes more than K passes of
\* its loop (each pass expands one neighbourhood).
C2_StepCap ==
    (pc \in {"climbing", "returned"} /\ max_iterations # None)
        => climb.local_search_steps <= max_iterations[1]

\* C3 as claimed: the caller of maximize(history, stats, num_points) obtains
\* at most num_points configurations, whatever the strategy.
C3_AtMostNumPoints ==
    /\ pc = "returned" => Len(result) <= num_points
    /\ pc = "iterating" => Len(yielded) <= num_points

\* C3 as amended: LocalSearch returns min(num_points, evaluated
\* configurations) configurations, which is at most num_points; RandomSearch
\* returns max(1, num_points); the interleaved strategy's ChallengerList is
\* built on L + max(1, num_points - L) configurations, L = min(10, evaluated
\* configurations), and yields twice as many before it is exhausted.
C3_NumberObtained ==
    LET L == Min2(LocalSearchPoints, Len(runhistory.configs))
    IN /\ (pc = "returned" /\ strategy = "local_search")
            => /\ Len(result) = Min2(num_points, Len(runhistory.configs))
               /\ Len(result) <= num_points
       /\ (pc = "returned" /\ strategy = "random_search")
            => Len(result) = Max2(1, num_points)
       /\ pc = "iterating"
            => /\ Len(challengers) = L + Max2(1, num_points - L)
               /\ Len(yielded) <= 2 * Len(challengers)
               /\ stopped => Len(yielded) = 2 * Len(challengers)

C3_Witness ==
    /\ pc = "iterating"
    /\ stopped
    /\ num_points = 2
    /\ Len(runhistory.configs) = 2
    /\ Len(yielded) = 6

\* C4: the interleaved strategy and the two sub-strategies it owns see one
\* and the same generator state, whether or not a generator was handed to the
\* constructor: a draw by one moves the state the others see.
C4_OneGeneratorState ==
    \A m1, m2 \in Maximizers : rngs[rng[m1]] = rngs[rng[m2]]

\* C5: with n_steps_plateau_walk = 0, a climb from a start point none of
\* whose neighbours scores strictly higher ends in its first pass and returns
\* the start point with the start point's score, however many neighbours
\* score the same.
C5_NoPlateauWalk ==
    LET start == climb.start_point
        acq == acquisition_function
    IN (/\ pc \in {"climbing", "returned"}
        /\ n_steps_plateau_walk = 0
        /\ \A d \in Range(OneExchange(start)) : acq[d] <= acq[start])
       => /\ climb.local_search_steps <= 1
          /\ climb.local_search_steps = 1 => climb.done
          /\ climb.incumbent = start
          /\ climb.acq_val_incumbent = acq[start]
          /\ pc = "returned" => /\ climb.local_search_steps = 1
                                /\ result = <<Scored(acq[start], start, "None")>>

C5_Witness ==
    /\ pc = "returned"
    /\ n_steps_plateau_walk = 0
    /\ max_iterations = None
    /\ \A d \in Range(OneExchange(climb.start_point)) :
          acquisition_function[d] = acquisition_function[climb.start_point]
    /\ result[1].cfg = climb.start_point

\* C6: the interleaved strategy asks LocalSearch for exactly 10 points
\* whatever num_points is, then asks RandomSearch for num_points - L sorted
\* results, L being the number of results LocalSearch returned; the list
\* handed to the ChallengerList is a permutation of the random-search results
\* together with the local-search results, in non-increasing order of score.
C6_InterleavedComposition ==
    (pc = "iterating" /\ strategy = "interleaved")
       => /\ requests = <<[strategy |-> "local_search", num_points |-> 10,
                           sorted |-> FALSE],
                          [strategy |-> "random_search",
                           num_points |-> num_points - Len(by_local_search),
                           sorted |-> TRUE]>>
          /\ Len(by_random_search) = Max2(1, num_points - Len(by_local_search))
          /\ IsPermutation(result, by_random_search \o by_local_search)
          /\ NonIncreasing(result)
          /\ \A i \in DOMAIN result :
                result[i].score = acquisition_function[result[i].cfg]
          /\ challengers = Configurations(result)

C6_Witness ==
    /\ pc = "iterating"
    /\ strategy = "interleaved"
    /\ num_points = 2
    /\ Len(by_local_search) = 2
    /\ Len(result) = 3
    /\ result[1].score > result[3].score
    /\ result[1].origin = "Local Search"

\* C7: with a non-empty history the seeds of LocalSearch are the top
\* min(num_points, evaluated configurations) evaluated configurations of the
\* ranking by acquisition value, and nothing is drawn from the configuration
\* space; a configuration that strictly dominates all others is among them
\* when num_points >= 1.  With an empty history the seeds are what a draw
\* from the configuration space returns.
C7_SeedSelection ==
    LET acq == acquisition_function
        evaluated == CfgsOf(runhistory.configs)
        seeds == CfgsOf(init_points)
    IN LocalSearchRan
       => IF HistoryEmpty(runhistory)
          THEN /\ Len(samples) >= 1
               /\ samples[1].size = Min2(0, AskedOfLocalSearch)
               /\ init_points = samples[1].configs
          ELSE /\ Len(seeds) = Min2(AskedOfLocalSearch, Len(evaluated))
               /\ Range(seeds) \subseteq Range(evaluated)
               /\ \A i, j \in DOMAIN seeds : i < j =>
                     /\ seeds[i] # seeds[j]
                     /\ acq[seeds[i]] >= acq[seeds[j]]
               /\ \A c \in Range(evaluated) \ Range(seeds) :
                     \A d \in Range(seeds) : acq[d] >= acq[c]
               /\ \A c \in Range(evaluated) :
                     (/\ AskedOfLocalSearch >= 1
                      /\ \A d \in Range(evaluated) \ {c} : acq[c] > acq[d])
                        => c \in Range(seeds)
               /\ strategy = "local_search" => samples = <<>>
               /\ \A k \in DOMAIN samples : samples[k].size >= 1

C7_Witness ==
    /\ pc = "returned"
    /\ strategy = "local_search"
    /\ num_points = 1
    /\ Len(runhistory.configs) = 2
    /\ acquisition_function[runhistory.configs[2].cfg]
          > acquisition_function[runhistory.configs[1].cfg]
    /\ CfgsOf(init_points) = <<runhistory.configs[2].cfg>>

\* C8: LocalSearch._maximize runs one climb per seed and returns one result
\* per seed, and the seeds number min(num_points, evaluated configurations);
\* with an empty history it asks for a draw of size 0 and returns nothing.
C8_OneResultPerSeed ==
    LET returned == IF strategy = "interleaved" THEN by_local_search ELSE result
    IN LocalSearchRan
       => /\ n_climbs = Len(init_points)
          /\ Len(returned) = Len(init_points)
          /\ Len(init_points) = Min2(AskedOfLocalSearch, Len(runhistory.configs))
          /\ HistoryEmpty(runhistory)
                => /\ samples[1] = [size |-> 0, configs |-> <<>>]
                   /\ returned = <<>>

C8_Witness ==
    /\ pc = "returned"
    /\ strategy = "local_search"
    /\ num_points = 2
    /\ runhistory.runs = 3
    /\ n_climbs = 2
    /\ Len(result) = 2

\* C9: for a non-empty list of configurations _sort_configs_by_acq_value
\* returns the configurations of the list (none added, dropped or doubled),
\* each with its own acquisition value, in non-increasing order of value.
C9_RankingInvariant ==
    (pc = "returned" /\ configs # <<>>)
       => /\ NonIncreasing(result)
          /\ IsPermutation(Configurations(result), configs)
          /\ \A i \in DOMAIN result :
                result[i].score = acquisition_function[result[i].cfg]

C9_Witness ==
    /\ pc = "returned"
    /\ Len(configs) = 3
    /\ configs[2] # configs[3]
    /\ acquisition_function[configs[1].cfg] < acquisition_function[configs[2].cfg]
    /\ acquisition_function[configs[2].cfg] = acquisition_function[configs[3].cfg]
    /\ result[1].cfg = configs[3].cfg

\* C10: RandomSearch._maximize makes one draw, of size 1 when num_points <= 1
\* and of size num_points otherwise, and returns num_points results when
\* num_points >= 1; without the sorted flag every result has score 0 and
\* origin "Random Search", in the order drawn; with the flag every result has
\* origin "Random Search (sorted)" and the scores do not increase.
C10_RandomSearchBatch ==
    (pc = "returned" /\ strategy = "random_search")
       => /\ Len(samples) = 1
          /\ samples[1].size = (IF num_points <= 1 THEN 1 ELSE num_points)
          /\ Len(samples[1].configs) = samples[1].size
          /\ num_points >= 1 => Len(result) = num_points
          /\ IF requests[1].sorted
             THEN /\ \A i \in DOMAIN result : result[i].origin = "Random Search (sorted)"
                  /\ NonIncreasing(result)
                  /\ IsPermutation(CfgsOf(result), CfgsOf(samples[1].configs))
             ELSE /\ \A i \in DOMAIN result :
                        /\ result[i].score = 0
                        /\ result[i].origin = "Random Search"
                  /\ CfgsOf(result) = CfgsOf(samples[1].configs)

C10_Witness ==
    /\ pc = "returned"
    /\ strategy = "random_search"
    /\ num_points = 2
    /\ requests[1].sorted
    /\ result[1].score > result[2].score
    /\ result[1].cfg = samples[1].configs[2].cfg

\* C11: a call of _maximize on the InterleavedLocalAndRandomSearch or on the
\* abstract base always ends in NotImplementedError: it returns no result,
\* draws nothing from any generator, samples no configuration, and leaves the
\* maximizers and the configuration space as they were.
C11_UnimplementedRank ==
    /\ [](strategy \in Unimplemented => pc = "NotImplementedError" /\ result = <<>>)
    /\ [][strategy' \in Unimplemented =>
             /\ pc' = "NotImplementedError"
             /\ UNCHANGED <<maxVars, rngVars, cs, samples, requests, result, init_points,
                            n_climbs, by_local_search, by_random_search, climb,
                            listVars>>]_vars

C11_Witness ==
    /\ pc = "NotImplementedError"
    /\ strategy = "InterleavedLocalAndRandomSearch._maximize"
    /\ num_points = MaxPoints
    /\ runhistory.runs > 0
    /\ samples = <<>>

\* The states of a generator, and the state the generator of the sort was in
\* before it drew one number per configuration (RngNext is a bijection).
GeneratorStates == 1 .. 16

SeedBefore ==
    CHOOSE s \in GeneratorStates : RngAdvance(s, Len(configs)) = RngOf("local_search")

SortedFrom(s) == SortConfigsByAcqValue(acquisition_function, configs, s).list

ScoresOf(list) == [i \in 1 .. Len(list) |-> list[i].score]

\* At least two different configurations share the top score.
TwoEqualTopScores ==
    \E i, j \in DOMAIN configs :
       /\ configs[i].cfg # configs[j].cfg
       /\ acquisition_function[configs[i].cfg] = acquisition_function[configs[j].cfg]
       /\ \A k \in DOMAIN configs :
             acquisition_function[configs[k].cfg] <= acquisition_function[configs[i].cfg]

FromRandomSearch(e) == e.origin = "Random Search (sorted)"

FromLocalSearch(e) == e.origin = "Local Search"

\* C13: the list InterleavedLocalAndRandomSearch.maximize hands to the
\* ChallengerList is sorted stably: among entries of equal score every
\* random-search entry precedes every local-search entry, and the entries of
\* one source are in the order that source returned them in.
C13_StableMerge ==
    pc = "iterating" =>
       /\ challengers = Configurations(result)
       /\ \A i, j \in DOMAIN result :
             i < j /\ result[i].score = result[j].score =>
                ~(FromLocalSearch(result[i]) /\ FromRandomSearch(result[j]))
       /\ SelectSeq(result, FromRandomSearch) = by_random_search
       /\ SelectSeq(result, FromLocalSearch) = by_local_search

\* One random-search entry and two different local-search entries, all of
\* the same score.
C13_Witness ==
    /\ pc = "iterating"
    /\ Len(by_random_search) = 1
    /\ Len(by_local_search) = 2
    /\ by_local_search[1].cfg # by_local_search[2].cfg
    /\ \A i \in DOMAIN result : result[i].score = result[1].score
    /\ result = by_random_search \o by_local_search

\* The acquisition value of configuration c.
Acq(c) == acquisition_function[c]

\* The step is one pass of the loop of _one_iter.
IsClimbStep == pc = "climbing" /\ climb'.local_search_steps = climb.local_search_steps + 1

\* The pass moved the incumbent to a neighbour of the same score.
PlateauMoved == climb'.incumbent # climb.incumbent /\ Acq(climb'.incumbent) = Acq(climb.incumbent)

\* The positions of the neighbourhood whose score relates to v as given.
HigherThan(all_neighbors, v) == {k \in DOMAIN all_neighbors : Acq(all_neighbors[k]) > v}

EqualTo(all_neighbors, v) == {k \in DOMAIN all_neighbors : Acq(all_neighbors[k]) = v}

\* C14: in a climb the plateau moves so far are counted by n_no_improvements,
\* which no step resets and which never exceeds n_steps_plateau_walk; a
\* plateau move is made only after a scan of the whole neighbourhood that
\* found no strictly better neighbour, and goes to the first neighbour of the
\* incumbent's score.
C14_PlateauBudget ==
    /\ [](pc = "climbing" => climb.n_no_improvements <= n_steps_plateau_walk)
    /\ [][IsClimbStep =>
             /\ climb'.n_no_improvements =
                   climb.n_no_improvements + (IF PlateauMoved THEN 1 ELSE 0)
             /\ PlateauMoved =>
                   /\ climb.n_no_improvements < n_steps_plateau_walk
                   /\ HigherThan(climb'.all_neighbors, Acq(climb.incumbent)) = {}
                   /\ climb'.scanned = Len(climb'.all_neighbors)
                   /\ \E k \in EqualTo(climb'.all_neighbors, Acq(climb.incumbent)) :
                         /\ climb'.incumbent = climb'.all_neighbors[k]
                         /\ \A l \in EqualTo(climb'.all_neighbors, Acq(climb.incumbent)) :
                               k <= l]_vars

\* A strict improvement made after a plateau move, the count kept, in a climb
\* that may make no further plateau move.
C14_Witness ==
    /\ pc = "climbing"
    /\ climb.n_no_improvements = 1
    /\ n_steps_plateau_walk = 1
    /\ climb.changed_inc
    /\ Acq(climb.incumbent) > Acq(climb.start_point)

\* C15: in a pass of the loop whose neighbourhood holds a neighbour scoring
\* strictly higher than the incumbent, the first such neighbour in scan order
\* becomes the incumbent with its score, the scan evaluates no neighbour after
\* it, and the pass makes and counts no plateau move, whatever equal-scoring
\* neighbours it recorded before.
C15_FirstImprovement ==
    [][IsClimbStep /\ HigherThan(climb'.all_neighbors, Acq(climb.incumbent)) # {} =>
          \E k \in HigherThan(climb'.all_neighbors, Acq(climb.incumbent)) :
             /\ \A l \in HigherThan(climb'.all_neighbors, Acq(climb.incumbent)) : k <= l
             /\ climb'.incumbent = climb'.all_neighbors[k]
             /\ climb'.acq_val_incumbent = Acq(climb'.all_neighbors[k])
             /\ climb'.scanned = k
             /\ climb'.neighbors_looked_at = climb.neighbors_looked_at + k
             /\ climb'.changed_inc
             /\ ~climb'.plateau_move
             /\ climb'.n_no_improvements = climb.n_no_improvements]_vars

\* The pass took the first of two better neighbours although the second
\* scores higher still, and left the second unevaluated.
C15_Witness ==
    /\ pc = "climbing"
    /\ climb.local_search_steps = 1
    /\ Len(climb.all_neighbors) = 2
    /\ climb.scanned = 1
    /\ climb.neighbors_looked_at = 1
    /\ climb.incumbent = climb.all_neighbors[1]
    /\ Acq(climb.all_neighbors[1]) > Acq(climb.start_point)
    /\ Acq(climb.all_neighbors[2]) > Acq(climb.all_neighbors[1])

\* What the LocalSearch of the call in progress returned.
ByLocalSearch == IF strategy = "interleaved" THEN by_local_search ELSE result

\* C16: the list LocalSearch._maximize returns, called directly or by the
\* interleaved maximizer, is in non-increasing order of score, one entry per
\* climb, and every configuration in it has the origin "Local Search".
C16_LocalSearchResult ==
    LocalSearchRan =>
       /\ NonIncreasing(ByLocalSearch)
       /\ Len(ByLocalSearch) = n_climbs
       /\ \A i \in DOMAIN ByLocalSearch :
             /\ ByLocalSearch[i].origin = "Local Search"
             /\ ByLocalSearch[i].score = Acq(ByLocalSearch[i].cfg)

\* Two climbs from evaluated configurations (origin "None") that ended at
\* different scores.
C16_Witness ==
    /\ pc = "returned"
    /\ strategy = "local_search"
    /\ Len(init_points) = 2
    /\ \A i \in DOMAIN init_points : init_points[i].origin = "None"
    /\ Len(result) = 2
    /\ result[1].score > result[2].score

\* The number of different scores the acquisition function gives.
DistinctScores == Cardinality({Acq(c) : c \in Configs})

\* C17: with max_iterations unset every climb returns: each pass but the
\* last either raises the incumbent's score, which can happen at most once
\* per score above the lowest, or is a plateau move, of which there are at
\* most n_steps_plateau_walk.
C17_ClimbTerminates ==
    /\ [](max_iterations = None /\ pc = "climbing" =>
             climb.local_search_steps <= (DistinctScores - 1) + n_steps_plateau_walk + 1)
    /\ (max_iterations = None => <>(pc = "returned"))

\* A climb without a cap that returned after a plateau move, an improvement
\* and the pass that found nothing more.
C17_Witness ==
    /\ pc = "returned"
    /\ max_iterations = None
    /\ climb.n_no_improvements >= 1
    /\ Acq(climb.incumbent) > Acq(climb.start_point)
    /\ climb.local_search_steps >= 3

\* C18: throughout a climb acq_val_incumbent is the acquisition value of the
\* incumbent and is at least the start point's; no pass of the loop lowers
\* it; and the pair returned is the incumbent with its own value, at least
\* the start point's.
C18_IncumbentScore ==
    /\ [](pc \in {"climbing", "returned"} =>
             /\ climb.acq_val_incumbent = Acq(climb.incumbent)
             /\ climb.acq_val_incumbent >= Acq(climb.start_point))
    /\ [](pc = "returned" =>
             /\ result[1].cfg = climb.incumbent
             /\ result[1].score = Acq(result[1].cfg)
             /\ result[1].score >= Acq(climb.start_point))
    /\ [][IsClimbStep => climb'.acq_val_incumbent >= climb.acq_val_incumbent]_vars

\* A climb stopped by the cap in a pass that made a plateau move, with
\* neighbours of lower score about.
C18_Witness ==
    /\ pc = "returned"
    /\ max_iterations # None
    /\ climb.local_search_steps = max_iterations[1]
    /\ climb.plateau_move
    /\ result[1].cfg # climb.start_point
    /\ \E c \in Configs : Acq(c) < result[1].score

\* The loop of _one_iter has ended, and not because the cap was reached.
EndedBelowCap ==
    /\ pc \in {"climbing", "returned"}
    /\ climb.done
    /\ ~(max_iterations # None /\ climb.local_search_steps = max_iterations[1])

\* C19: when the loop ends in a pass that did not reach the cap, the pass
\* scanned the whole neighbourhood of the incumbent it returns, no neighbour
\* in it scores strictly higher than the incumbent, and either none scores
\* the same or n_steps_plateau_walk plateau moves have been made.
C19_LocalMaximum ==
    EndedBelowCap =>
       /\ Range(climb.all_neighbors) = Range(OneExchange(climb.incumbent))
       /\ climb.scanned = Len(climb.all_neighbors)
       /\ HigherThan(climb.all_neighbors, Acq(climb.incumbent)) = {}
       /\ \/ EqualTo(climb.all_neighbors, Acq(climb.incumbent)) = {}
          \/ climb.n_no_improvements >= n_steps_plateau_walk

\* A climb that moved, ended below the cap, and left an equal-scoring
\* neighbour untried because the plateau budget was spent.
C19_Witness ==
    /\ pc = "returned"
    /\ EndedBelowCap
    /\ climb.incumbent # climb.start_point
    /\ n_steps_plateau_walk >= 1
    /\ climb.n_no_improvements = n_steps_plateau_walk
    /\ EqualTo(climb.all_neighbors, Acq(climb.incumbent)) # {}

\* C20: the cursor of a ChallengerList stays between 0 and the length of its
\* list, and a random draw is owed only after a challenger was yielded;
\* StopIteration is raised only with the cursor at the end and no draw owed;
\* no pull changes the list; a pull that yields a random draw leaves the
\* cursor where it was; and after StopIteration every pull raises it again,
\* with cursor, flag and what was yielded unchanged.
C20_ExhaustionAbsorbing ==
    /\ [](pc = "iterating" =>
             /\ _index \in 0 .. Len(challengers)
             /\ _next_is_random => _index >= 1
             /\ stopped => _index = Len(challengers) /\ ~_next_is_random)
    /\ [][pc = "iterating" =>
             /\ challengers' = challengers
             /\ _next_is_random /\ ~stopped =>
                   /\ _index' = _index
                   /\ ~_next_is_random'
                   /\ Len(yielded') = Len(yielded) + 1
                   /\ yielded'[Len(yielded')].origin = "Random Search"
             /\ stopped =>
                   /\ stopped'
                   /\ UNCHANGED <<_index, _next_is_random, yielded, cs, samples>>]_vars

\* StopIteration raised on a list of the greatest length, after every
\* challenger and every random draw was yielded.
C20_Witness ==
    /\ pc = "iterating"
    /\ stopped
    /\ Len(challengers) = MaxList
    /\ _index = MaxList
    /\ Len(yielded) = 2 * MaxList
====
